---- MODULE Spec2Model ----
(***************************************************************************)
(* The zoom/focus motor driver of pollen-robotics/zoom_kurokesu.            *)
(*                                                                         *)
(* The repository holds two revisions of the driver class ZoomController:  *)
(*   zoom_kurokesu/zoom_piloting.py   the packaged driver                   *)
(*   optical_zoom/zoom_piloting.py    the earlier driver (names OZ_...)     *)
(* The variable pkg says which of the two the instance is built from.      *)
(*                                                                         *)
(* A line written to the serial port is modelled as the sequence of its    *)
(* G-code words, a word being <<letter, number>>: 'G1 X457 F10000' is      *)
(* <<<<"G",1>>, <<"X",457>>, <<"F",10000>>>>.  Blanks between words and    *)
(* the trailing newline are not modelled.  A line returned by readline()   *)
(* is the string read, "" being the empty result of a read that timed out. *)
(*                                                                         *)
(* Spec, SpecOZ and SpecBoth leave the control board open: a readline may  *)
(* return any line.  SpecWire and SpecLate follow the serial line itself   *)
(* (variable port): the input buffer, and a board that answers each line   *)
(* once, at any later time.                                                *)
(***************************************************************************)
EXTENDS Integers, Sequences, FiniteSets, TLC

VARIABLES
    pkg,      \* which package the instance comes from
    pc,       \* position of the (single) thread of control
    speed,    \* self.speed
    call,     \* the public call in progress, or the last one: <<name, args...>>
    frame,    \* locals of the running _send_custom_command, and where it returns
    ev,       \* what the call has done on the port so far: writes, reads, sleeps
    err,      \* exception raised by the last call, "none" when it returned
    nwrites,  \* number of ser.write() calls of the instance
    nreads,   \* number of ser.readline() calls of the instance
    port      \* the serial line: the input buffer and the controller behind it

vars == <<pkg, pc, speed, call, frame, ev, err, nwrites, nreads, port>>

\* ---------------------------------------------------------------- bounds

\* No new call is started once this many lines have been written.
MaxWrites == 4

\* ------------------------------------------------------ program constants

ZoomMin == 0
ZoomMax == 600
FocusMin == 0
FocusMax == 500
SpeedMin == 4000
SpeedMax == 40000
DefaultSpeed == 10000

\* ------------------------------------------------------------------ inputs

Sides == {"left", "right", "center"}
Levels == {"in", "inter", "out", "max"}
ZoomInputs == {-1, 0, 300, 600, 601, 700}
FocusInputs == {-1, 0, 250, 500, 501}
SpeedInputs == {3999, 4000, 5000, 40000, 40001, 999999}
CtorSpeeds == {100, 5000, DefaultSpeed}
\* the earlier driver tests its bounds strictly: the neighbours are inputs too
OZ_ZoomInputs == ZoomInputs \cup {1, 599}
OZ_FocusInputs == FocusInputs \cup {1, 499}
OZ_SpeedInputs == SpeedInputs \cup {4001, 39999}
\* what readline() can return: the acknowledgment, another line, nothing (timeout)
Responses == {"ok\r\n", "error\r\n", ""}

\* ------------------------------------------------------------------ tables

connector == [left |-> "J1", right |-> "J2"]

\* mutant: the zoom motor of connector J2 is given the letter of J1's
motors_Crossed ==
    [J1 |-> [zoom |-> "X", focus |-> "Y"],
     J2 |-> [zoom |-> "X", focus |-> "A"]]

motors ==
    [J1 |-> [zoom |-> "X", focus |-> "Y"],
     J2 |-> [zoom |-> "Z", focus |-> "A"]]

\* mutant: a focus value of the right camera is mistyped above the range
zoom_pos_Mistyped ==
    [left  |-> [in    |-> [zoom |-> 457, focus |-> 70],
                inter |-> [zoom |-> 270, focus |-> 331],
                out   |-> [zoom |-> 0,   focus |-> 455]],
     right |-> [in    |-> [zoom |-> 457, focus |-> 42],
                inter |-> [zoom |-> 270, focus |-> 321],
                out   |-> [zoom |-> 0,   focus |-> 544]]]

zoom_pos ==
    [left  |-> [in    |-> [zoom |-> 457, focus |-> 70],
                inter |-> [zoom |-> 270, focus |-> 331],
                out   |-> [zoom |-> 0,   focus |-> 455]],
     right |-> [in    |-> [zoom |-> 457, focus |-> 42],
                inter |-> [zoom |-> 270, focus |-> 321],
                out   |-> [zoom |-> 0,   focus |-> 445]]]

\* ------------------------------------------------------------------- lines

\* 'G100 P9 L144 N0 S0 F1 R1'
init_seq ==
    << <<"G", 100>>, <<"P", 9>>, <<"L", 144>>, <<"N", 0>>,
       <<"S", 0>>, <<"F", 1>>, <<"R", 1>> >>

\* mutant: the line is built with the default speed, not the stored one
AxisLine_DefaultSpeed(letter, value, spd) ==
    << <<"G", 1>>, <<letter, value>>, <<"F", DefaultSpeed>> >>

\* f'G1 {letter}{value} F{self.speed}'
AxisLine(letter, value, spd) ==
    << <<"G", 1>>, <<letter, value>>, <<"F", spd>> >>

\* f'G1 {letter_l}{left} {letter_r}{right} F{self.speed}'
TwoCamerasLine(letter_l, left, letter_r, right, spd) ==
    << <<"G", 1>>, <<letter_l, left>>, <<letter_r, right>>, <<"F", spd>> >>

\* 'G92 ' + mot['zoom'] + '0 ' + mot['focus'] + '0'
SetZeroLine(mot) ==
    << <<"G", 92>>, <<mot.zoom, 0>>, <<mot.focus, 0>> >>

\* -------------------------------------------------------------- port events

WriteEv(line) == [k |-> "write", line |-> line]
ReadEv(response) == [k |-> "read", resp |-> response]
SleepEv(ms) == [k |-> "sleep", ms |-> ms]

\* The serial line.  With wired = FALSE nothing is said about the controller:
\* a readline may return any of Responses.  With wired = TRUE the line is
\* followed: rx is the input buffer of the port, a sequence of received lines
\* [text, to], 'to' the number of the write the line replies to (0: a line
\* that was there before the port was opened); owed holds the numbers of the
\* writes the controller has not replied to yet; last is the 'to' of the line
\* the latest readline returned (-1: it timed out); timeouts counts the
\* readlines that timed out.
NoWire == [wired |-> FALSE, rx |-> <<>>, owed |-> <<>>, last |-> -1, timeouts |-> 0]

\* serial.Serial(...) / ser.open(): pyserial is not pinned by setup.py;
\* depending on its version and on the platform the open leaves what the
\* port had buffered (keep) or discards it
serial_open(p, keep) == IF keep THEN p ELSE [p EXCEPT !.rx = <<>>]

\* self.ser.flushInput(): the input buffer is emptied
flushInput(p) == [p EXCEPT !.rx = <<>>]

\* self.ser.flushOutput(): bytes written and not yet sent are dropped; a
\* write is modelled as sent at once, so nothing is held back
flushOutput(p) == p

\* self.ser.write(...) on a port in state p
ser_write_on(p, line) ==
    /\ ev' = Append(ev, WriteEv(line))
    /\ nwrites' = nwrites + 1
    /\ port' = IF p.wired THEN [p EXCEPT !.owed = Append(@, nwrites + 1)] ELSE p
    /\ UNCHANGED nreads

\* self.ser.write(bytes(line + '\n', 'utf8'))
ser_write(line) == ser_write_on(port, line)

\* mutant: a readline that finds several lines buffered returns the newest
\* and drops the older ones
ser_readline_Newest(response) ==
    /\ port.wired =>
         response = IF port.rx = <<>> THEN "" ELSE port.rx[Len(port.rx)].text
    /\ ev' = Append(ev, ReadEv(response))
    /\ nreads' = nreads + 1
    /\ port' = IF ~port.wired THEN port
               ELSE IF port.rx = <<>>
                      THEN [port EXCEPT !.last = -1, !.timeouts = @ + 1]
                      ELSE [port EXCEPT !.rx = <<>>, !.last = port.rx[Len(port.rx)].to]
    /\ UNCHANGED nwrites

\* _ = self.ser.readline(): the oldest buffered line, or nothing once the
\* timeout has run out on an empty buffer
ser_readline(response) ==
    /\ port.wired =>
         response = IF port.rx = <<>> THEN "" ELSE Head(port.rx).text
    /\ ev' = Append(ev, ReadEv(response))
    /\ nreads' = nreads + 1
    /\ port' = IF ~port.wired THEN port
               ELSE IF port.rx = <<>>
                      THEN [port EXCEPT !.last = -1, !.timeouts = @ + 1]
                      ELSE [port EXCEPT !.rx = Tail(@), !.last = Head(port.rx).to]
    /\ UNCHANGED nwrites

\* time.sleep(ms / 1000)
time_sleep(ms) ==
    /\ ev' = Append(ev, SleepEv(ms))
    /\ UNCHANGED <<nwrites, nreads, port>>

NoFrame ==
    [side |-> "", zoom |-> 0, focus |-> 0, left |-> 0, right |-> 0, i |-> 0, ret |-> ""]

\* a public method may be entered: the instance exists and is idle
CanCall(p) ==
    /\ pkg = p
    /\ pc = "ready"
    /\ nwrites < MaxWrites

\* the call ends by raising e: control is back with the caller
Raise(e) ==
    /\ pc' = "ready"
    /\ err' = e
    /\ frame' = NoFrame

\* ------------------------------------------------------------------- state

Init ==
    /\ pkg = "zoom_kurokesu"
    /\ pc = "new"
    /\ speed = 0
    /\ call = <<>>
    /\ frame = NoFrame
    /\ ev = <<>>
    /\ err = "none"
    /\ nwrites = 0
    /\ nreads = 0
    /\ port = NoWire

\* ============================================================ zoom_kurokesu

\* mutant: the handshake accepts any line that was received
HandshakeOk_AnyLine(response) == response # ""

\* response.decode() != 'ok\r\n' is the failure test of __init__
HandshakeOk(response) == response = "ok\r\n"

\* __init__, up to and including the write of the init line
__init__(speed_arg) ==
    /\ pkg = "zoom_kurokesu"
    /\ pc = "new"
    /\ speed' = speed_arg
    /\ call' = <<"__init__", speed_arg>>
    /\ \E keep \in BOOLEAN : ser_write_on(serial_open(port, keep), init_seq)
    /\ pc' = "init_readline"
    /\ UNCHANGED <<pkg, frame, err>>

\* __init__: response = self.ser.readline() and the test of it
init_readline(response) ==
    /\ pkg = "zoom_kurokesu"
    /\ pc = "init_readline"
    /\ ser_readline(response)
    /\ IF HandshakeOk(response)
         THEN pc' = "ready" /\ err' = "none"
         ELSE pc' = "failed" /\ err' = "IOError"
    /\ UNCHANGED <<pkg, speed, call, frame>>

\* entry of _send_custom_command(side, zoom, focus): mot = self.motors[...]
enter_send_custom_command(side, zoom, focus, ret) ==
    IF side \in DOMAIN connector
      THEN /\ frame' = [NoFrame EXCEPT !.side = side, !.zoom = zoom,
                                       !.focus = focus, !.ret = ret]
           /\ pc' = "cc_write_zoom"
           /\ err' = "none"
      ELSE Raise("KeyError")

\* mutant: the table entry is unpacked in the wrong order
send_zoom_command_Swapped(side, zoom_level) ==
    /\ CanCall("zoom_kurokesu")
    /\ call' = <<"send_zoom_command", side, zoom_level>>
    /\ ev' = <<>>
    /\ IF side \in DOMAIN zoom_pos /\ zoom_level \in DOMAIN zoom_pos[side]
         THEN enter_send_custom_command(side, zoom_pos[side][zoom_level].focus,
                                        zoom_pos[side][zoom_level].zoom, "ready")
         ELSE Raise("KeyError")
    /\ UNCHANGED <<pkg, speed, nwrites, nreads, port>>

\* send_zoom_command(side, zoom_level)
send_zoom_command(side, zoom_level) ==
    /\ CanCall("zoom_kurokesu")
    /\ call' = <<"send_zoom_command", side, zoom_level>>
    /\ ev' = <<>>
    /\ IF side \in DOMAIN zoom_pos /\ zoom_level \in DOMAIN zoom_pos[side]
         THEN enter_send_custom_command(side, zoom_pos[side][zoom_level].zoom,
                                        zoom_pos[side][zoom_level].focus, "ready")
         ELSE Raise("KeyError")
    /\ UNCHANGED <<pkg, speed, nwrites, nreads, port>>

\* _send_custom_command(side, zoom, focus) called directly
_send_custom_command(side, zoom, focus) ==
    /\ CanCall("zoom_kurokesu")
    /\ call' = <<"_send_custom_command", side, zoom, focus>>
    /\ ev' = <<>>
    /\ enter_send_custom_command(side, zoom, focus, "ready")
    /\ UNCHANGED <<pkg, speed, nwrites, nreads, port>>

\* _send_custom_command: the zoom line is built and written
cc_write_zoom ==
    /\ pkg = "zoom_kurokesu"
    /\ pc = "cc_write_zoom"
    /\ ser_write(AxisLine(motors[connector[frame.side]].zoom, frame.zoom, speed))
    /\ pc' = "cc_read_zoom"
    /\ UNCHANGED <<pkg, speed, call, frame, err>>

\* mutant: the acknowledgment of the zoom line is not read
cc_read_zoom_Skipped(response) ==
    /\ pkg = "zoom_kurokesu"
    /\ pc = "cc_read_zoom"
    /\ pc' = "cc_write_focus"
    /\ UNCHANGED <<pkg, speed, call, frame, ev, err, nwrites, nreads, port>>

\* mutant: a read that times out after the zoom line raises
cc_read_zoom_Raising(response) ==
    /\ pkg = "zoom_kurokesu"
    /\ pc = "cc_read_zoom"
    /\ ser_readline(response)
    /\ IF response = ""
         THEN Raise("TimeoutError")
         ELSE pc' = "cc_write_focus" /\ UNCHANGED <<frame, err>>
    /\ UNCHANGED <<pkg, speed, call>>

\* _send_custom_command: _ = self.ser.readline() after the zoom line
cc_read_zoom(response) ==
    /\ pkg = "zoom_kurokesu"
    /\ pc = "cc_read_zoom"
    /\ ser_readline(response)
    /\ pc' = "cc_write_focus"
    /\ UNCHANGED <<pkg, speed, call, frame, err>>

\* _send_custom_command: the focus line is built and written
cc_write_focus ==
    /\ pkg = "zoom_kurokesu"
    /\ pc = "cc_write_focus"
    /\ ser_write(AxisLine(motors[connector[frame.side]].focus, frame.focus, speed))
    /\ pc' = "cc_read_focus"
    /\ UNCHANGED <<pkg, speed, call, frame, err>>

\* _send_custom_command: _ = self.ser.readline() after the focus line, and return
cc_read_focus(response) ==
    /\ pkg = "zoom_kurokesu"
    /\ pc = "cc_read_focus"
    /\ ser_readline(response)
    /\ pc' = frame.ret
    /\ frame' = NoFrame
    /\ UNCHANGED <<pkg, speed, call, err>>

\* the test of send_custom_zoom_two_cameras that lets the call go on
ZoomPairAccepted(left_zoom, right_zoom) ==
    \/ (ZoomMin <= left_zoom /\ left_zoom <= ZoomMax)
    \/ (ZoomMin <= right_zoom /\ right_zoom <= ZoomMax)

\* the test of send_custom_focus_two_cameras that lets the call go on
FocusPairAccepted(left_focus, right_focus) ==
    \/ (FocusMin <= left_focus /\ left_focus <= FocusMax)
    \/ (FocusMin <= right_focus /\ right_focus <= FocusMax)

\* body of send_custom_zoom_two_cameras up to the write
enter_send_custom_zoom_two_cameras(left_zoom, right_zoom) ==
    IF ZoomPairAccepted(left_zoom, right_zoom)
      THEN /\ frame' = [NoFrame EXCEPT !.left = left_zoom, !.right = right_zoom]
           /\ pc' = "dz_write"
           /\ err' = "none"
      ELSE Raise("ValueError")

\* send_custom_zoom_two_cameras(left_zoom, right_zoom)
send_custom_zoom_two_cameras(left_zoom, right_zoom) ==
    /\ CanCall("zoom_kurokesu")
    /\ call' = <<"send_custom_zoom_two_cameras", left_zoom, right_zoom>>
    /\ ev' = <<>>
    /\ enter_send_custom_zoom_two_cameras(left_zoom, right_zoom)
    /\ UNCHANGED <<pkg, speed, nwrites, nreads, port>>

\* mutant: each camera is given the level asked of the other one
send_zoom_command_two_cameras_Swapped(left_zoom, right_zoom) ==
    /\ CanCall("zoom_kurokesu")
    /\ call' = <<"send_zoom_command_two_cameras", left_zoom, right_zoom>>
    /\ ev' = <<>>
    /\ IF left_zoom \in DOMAIN zoom_pos["left"] /\ right_zoom \in DOMAIN zoom_pos["right"]
         THEN enter_send_custom_zoom_two_cameras(zoom_pos["left"][right_zoom].zoom,
                                                 zoom_pos["right"][left_zoom].zoom)
         ELSE Raise("KeyError")
    /\ UNCHANGED <<pkg, speed, nwrites, nreads, port>>

\* send_zoom_command_two_cameras(left_zoom, right_zoom), levels by name
send_zoom_command_two_cameras(left_zoom, right_zoom) ==
    /\ CanCall("zoom_kurokesu")
    /\ call' = <<"send_zoom_command_two_cameras", left_zoom, right_zoom>>
    /\ ev' = <<>>
    /\ IF left_zoom \in DOMAIN zoom_pos["left"] /\ right_zoom \in DOMAIN zoom_pos["right"]
         THEN enter_send_custom_zoom_two_cameras(zoom_pos["left"][left_zoom].zoom,
                                                 zoom_pos["right"][right_zoom].zoom)
         ELSE Raise("KeyError")
    /\ UNCHANGED <<pkg, speed, nwrites, nreads, port>>

\* send_custom_zoom_two_cameras: the line for both zoom motors is written
dz_write ==
    /\ pkg = "zoom_kurokesu"
    /\ pc = "dz_write"
    /\ ser_write(TwoCamerasLine(motors[connector["left"]].zoom, frame.left,
                                motors[connector["right"]].zoom, frame.right, speed))
    /\ pc' = "dz_read"
    /\ UNCHANGED <<pkg, speed, call, frame, err>>

\* send_custom_zoom_two_cameras: _ = self.ser.readline(), and return
dz_read(response) ==
    /\ pkg = "zoom_kurokesu"
    /\ pc = "dz_read"
    /\ ser_readline(response)
    /\ pc' = "ready"
    /\ frame' = NoFrame
    /\ UNCHANGED <<pkg, speed, call, err>>

\* send_custom_focus_two_cameras(left_focus, right_focus)
send_custom_focus_two_cameras(left_focus, right_focus) ==
    /\ CanCall("zoom_kurokesu")
    /\ call' = <<"send_custom_focus_two_cameras", left_focus, right_focus>>
    /\ ev' = <<>>
    /\ IF FocusPairAccepted(left_focus, right_focus)
         THEN /\ frame' = [NoFrame EXCEPT !.left = left_focus, !.right = right_focus]
              /\ pc' = "df_write"
              /\ err' = "none"
         ELSE Raise("ValueError")
    /\ UNCHANGED <<pkg, speed, nwrites, nreads, port>>

\* send_custom_focus_two_cameras: the line for both focus motors is written
df_write ==
    /\ pkg = "zoom_kurokesu"
    /\ pc = "df_write"
    /\ ser_write(TwoCamerasLine(motors[connector["left"]].focus, frame.left,
                                motors[connector["right"]].focus, frame.right, speed))
    /\ pc' = "df_read"
    /\ UNCHANGED <<pkg, speed, call, frame, err>>

\* send_custom_focus_two_cameras: _ = self.ser.readline(), and return
df_read(response) ==
    /\ pkg = "zoom_kurokesu"
    /\ pc = "df_read"
    /\ ser_readline(response)
    /\ pc' = "ready"
    /\ frame' = NoFrame
    /\ UNCHANGED <<pkg, speed, call, err>>

\* mutant: an unknown side is ignored and the call returns
homing_KeyIgnored(side) ==
    /\ CanCall("zoom_kurokesu")
    /\ call' = <<"homing", side>>
    /\ ev' = <<>>
    /\ IF side \in DOMAIN connector
         THEN /\ pc' = "h_zero1_write"
              /\ err' = "none"
              /\ frame' = NoFrame
         ELSE /\ pc' = "ready"
              /\ err' = "none"
              /\ frame' = NoFrame
    /\ UNCHANGED <<pkg, speed, nwrites, nreads, port>>

\* homing(side): mot = self.motors[self.connector[side]]
homing(side) ==
    /\ CanCall("zoom_kurokesu")
    /\ call' = <<"homing", side>>
    /\ ev' = <<>>
    /\ IF side \in DOMAIN connector
         THEN /\ pc' = "h_zero1_write"
              /\ err' = "none"
              /\ frame' = NoFrame
         ELSE Raise("KeyError")
    /\ UNCHANGED <<pkg, speed, nwrites, nreads, port>>

\* homing: the first 'G92 ...' line is written
homing_zero1_write ==
    /\ pkg = "zoom_kurokesu"
    /\ pc = "h_zero1_write"
    /\ ser_write(SetZeroLine(motors[connector[call[2]]]))
    /\ pc' = "h_zero1_read"
    /\ UNCHANGED <<pkg, speed, call, frame, err>>

\* homing: _ = self.ser.readline() after the first 'G92 ...'
homing_zero1_read(response) ==
    /\ pkg = "zoom_kurokesu"
    /\ pc = "h_zero1_read"
    /\ ser_readline(response)
    /\ pc' = "h_sleep1"
    /\ UNCHANGED <<pkg, speed, call, frame, err>>

\* homing: time.sleep(0.1), then self._send_custom_command(side, 0, -500)
homing_sleep1 ==
    /\ pkg = "zoom_kurokesu"
    /\ pc = "h_sleep1"
    /\ time_sleep(100)
    /\ enter_send_custom_command(call[2], 0, -500, "h_sleep2")
    /\ UNCHANGED <<pkg, speed, call>>

\* mutant: the second overshoot move is left out
homing_sleep2_NoMove ==
    /\ pkg = "zoom_kurokesu"
    /\ pc = "h_sleep2"
    /\ time_sleep(1000)
    /\ pc' = "h_sleep3"
    /\ UNCHANGED <<pkg, speed, call, frame, err>>

\* homing: time.sleep(1), then self._send_custom_command(side, -600, -500)
homing_sleep2 ==
    /\ pkg = "zoom_kurokesu"
    /\ pc = "h_sleep2"
    /\ time_sleep(1000)
    /\ enter_send_custom_command(call[2], -600, -500, "h_sleep3")
    /\ UNCHANGED <<pkg, speed, call>>

\* mutant: no settle delay before the final set-zero
homing_sleep3_NoSleep ==
    /\ pkg = "zoom_kurokesu"
    /\ pc = "h_sleep3"
    /\ pc' = "h_zero2_write"
    /\ UNCHANGED <<pkg, speed, call, frame, err, ev, nwrites, nreads, port>>

\* homing: time.sleep(1) after the second overshoot move
homing_sleep3 ==
    /\ pkg = "zoom_kurokesu"
    /\ pc = "h_sleep3"
    /\ time_sleep(1000)
    /\ pc' = "h_zero2_write"
    /\ UNCHANGED <<pkg, speed, call, frame, err>>

\* homing: the second 'G92 ...' line is written
homing_zero2_write ==
    /\ pkg = "zoom_kurokesu"
    /\ pc = "h_zero2_write"
    /\ ser_write(SetZeroLine(motors[connector[call[2]]]))
    /\ pc' = "h_zero2_read"
    /\ UNCHANGED <<pkg, speed, call, frame, err>>

\* homing: _ = self.ser.readline() after the second 'G92 ...'
homing_zero2_read(response) ==
    /\ pkg = "zoom_kurokesu"
    /\ pc = "h_zero2_read"
    /\ ser_readline(response)
    /\ pc' = "h_sleep4"
    /\ UNCHANGED <<pkg, speed, call, frame, err>>

\* homing: the last time.sleep(0.1), and return
homing_sleep4 ==
    /\ pkg = "zoom_kurokesu"
    /\ pc = "h_sleep4"
    /\ time_sleep(100)
    /\ pc' = "ready"
    /\ UNCHANGED <<pkg, speed, call, frame, err>>

\* the test of set_speed that lets the value be stored
SpeedAccepted(speed_value) ==
    SpeedMin <= speed_value /\ speed_value <= SpeedMax

\* set_speed(speed_value)
set_speed(speed_value) ==
    /\ pkg = "zoom_kurokesu"
    /\ pc = "ready"
    /\ call' = <<"set_speed", speed_value>>
    /\ ev' = <<>>
    /\ IF SpeedAccepted(speed_value)
         THEN speed' = speed_value /\ err' = "none"
         ELSE speed' = speed /\ err' = "ValueError"
    /\ UNCHANGED <<pkg, pc, frame, nwrites, nreads, port>>

Next ==
    \/ \E s \in CtorSpeeds : __init__(s)
    \/ \E r \in Responses : init_readline(r)
    \/ \E side \in Sides, l \in Levels : send_zoom_command(side, l)
    \/ \E l \in Levels, r \in Levels : send_zoom_command_two_cameras(l, r)
    \/ \E side \in Sides, z \in ZoomInputs, f \in FocusInputs :
          _send_custom_command(side, z, f)
    \/ cc_write_zoom
    \/ \E r \in Responses : cc_read_zoom(r)
    \/ cc_write_focus
    \/ \E r \in Responses : cc_read_focus(r)
    \/ \E l \in ZoomInputs, r \in ZoomInputs : send_custom_zoom_two_cameras(l, r)
    \/ dz_write
    \/ \E r \in Responses : dz_read(r)
    \/ \E l \in FocusInputs, r \in FocusInputs : send_custom_focus_two_cameras(l, r)
    \/ df_write
    \/ \E r \in Responses : df_read(r)
    \/ \E side \in Sides : homing(side)
    \/ homing_zero1_write
    \/ \E r \in Responses : homing_zero1_read(r)
    \/ homing_sleep1
    \/ homing_sleep2
    \/ homing_sleep3
    \/ homing_zero2_write
    \/ \E r \in Responses : homing_zero2_read(r)
    \/ homing_sleep4
    \/ \E v \in SpeedInputs : set_speed(v)

Spec == Init /\ [][Next]_vars

\* ============================================================= optical_zoom

\* the module's zoom_pos; its values are the strings '500 ', '20 ', ...
OZ_zoom_pos ==
    [in    |-> [zoom |-> 500, focus |-> 20],
     inter |-> [zoom |-> 350, focus |-> 320],
     out   |-> [zoom |-> 50,  focus |-> 500]]

\* 'G1 ' + mot['zoom'] + zoom + mot['focus'] + focus + 'F' + str(self.speed)
OZ_MoveLine(mot, zoom, focus, spd) ==
    << <<"G", 1>>, <<mot.zoom, zoom>>, <<mot.focus, focus>>, <<"F", spd>> >>

\* the list `sequence` of homing
OZ_sequence(mot) ==
    << << <<"G", 91>> >>,
       << <<"F", 30000>> >>,
       << <<"G", 1>>, <<mot.focus, -500>> >>,
       << <<"G", 1>>, <<mot.zoom, -1200>> >>,
       << <<"G", 90>> >>,
       << <<"G", 92>>, <<mot.zoom, 0>>, <<mot.focus, 0>> >> >>

\* the assert of __init__: response.decode() == 'ok\r\n'
OZ_HandshakeOk(response) == response = "ok\r\n"

\* __init__, up to and including the write of the init line
OZ___init__(speed_arg) ==
    /\ pkg = "optical_zoom"
    /\ pc = "new"
    /\ speed' = speed_arg
    /\ call' = <<"__init__", speed_arg>>
    /\ \E keep \in BOOLEAN :
         ser_write_on(flushOutput(flushInput(serial_open(port, keep))), init_seq)
    /\ pc' = "oz_init_readline"
    /\ UNCHANGED <<pkg, frame, err>>

\* __init__: response = self.ser.readline() and the assert on it
OZ_init_readline(response) ==
    /\ pkg = "optical_zoom"
    /\ pc = "oz_init_readline"
    /\ ser_readline(response)
    /\ IF OZ_HandshakeOk(response)
         THEN pc' = "ready" /\ err' = "none"
         ELSE pc' = "failed" /\ err' = "AssertionError"
    /\ UNCHANGED <<pkg, speed, call, frame>>

\* send_zoom_command(side, zoom_level): the two table lookups
OZ_send_zoom_command(side, zoom_level) ==
    /\ CanCall("optical_zoom")
    /\ call' = <<"send_zoom_command", side, zoom_level>>
    /\ ev' = <<>>
    /\ IF zoom_level \in DOMAIN OZ_zoom_pos /\ side \in DOMAIN connector
         THEN /\ frame' = [NoFrame EXCEPT !.side = side,
                                          !.zoom = OZ_zoom_pos[zoom_level].zoom,
                                          !.focus = OZ_zoom_pos[zoom_level].focus]
              /\ pc' = "oz_write"
              /\ err' = "none"
         ELSE Raise("KeyError")
    /\ UNCHANGED <<pkg, speed, nwrites, nreads, port>>

\* the two asserts of _send_custom_command
OZ_ValuesAccepted(zoom, focus) ==
    /\ zoom > ZoomMin /\ zoom < ZoomMax
    /\ focus > FocusMin /\ focus < FocusMax

\* _send_custom_command(side, zoom, focus): the asserts, then the lookup
OZ__send_custom_command(side, zoom, focus) ==
    /\ CanCall("optical_zoom")
    /\ call' = <<"_send_custom_command", side, zoom, focus>>
    /\ ev' = <<>>
    /\ IF ~OZ_ValuesAccepted(zoom, focus)
         THEN Raise("AssertionError")
         ELSE IF side \notin DOMAIN connector
           THEN Raise("KeyError")
           ELSE /\ frame' = [NoFrame EXCEPT !.side = side, !.zoom = zoom,
                                            !.focus = focus]
                /\ pc' = "oz_write"
                /\ err' = "none"
    /\ UNCHANGED <<pkg, speed, nwrites, nreads, port>>

\* send_zoom_command and _send_custom_command: the one line is written
OZ_write ==
    /\ pkg = "optical_zoom"
    /\ pc = "oz_write"
    /\ ser_write(OZ_MoveLine(motors[connector[frame.side]], frame.zoom,
                             frame.focus, speed))
    /\ pc' = "oz_read"
    /\ UNCHANGED <<pkg, speed, call, frame, err>>

\* send_zoom_command and _send_custom_command: _ = self.ser.readline()
OZ_read(response) ==
    /\ pkg = "optical_zoom"
    /\ pc = "oz_read"
    /\ ser_readline(response)
    /\ pc' = "ready"
    /\ frame' = NoFrame
    /\ UNCHANGED <<pkg, speed, call, err>>

\* homing(side): mot = motors[connector[side]] and the list is built
OZ_homing(side) ==
    /\ CanCall("optical_zoom")
    /\ call' = <<"homing", side>>
    /\ ev' = <<>>
    /\ IF side \in DOMAIN connector
         THEN /\ frame' = [NoFrame EXCEPT !.side = side, !.i = 1]
              /\ pc' = "oz_h_write"
              /\ err' = "none"
         ELSE Raise("KeyError")
    /\ UNCHANGED <<pkg, speed, nwrites, nreads, port>>

\* homing, loop body: self.ser.write(bytes(seq + '\n', 'utf8'))
OZ_homing_write ==
    /\ pkg = "optical_zoom"
    /\ pc = "oz_h_write"
    /\ ser_write(OZ_sequence(motors[connector[frame.side]])[frame.i])
    /\ pc' = "oz_h_read"
    /\ UNCHANGED <<pkg, speed, call, frame, err>>

\* homing, loop body: _ = self.ser.readline(), then the next seq or return
OZ_homing_read(response) ==
    /\ pkg = "optical_zoom"
    /\ pc = "oz_h_read"
    /\ ser_readline(response)
    /\ IF frame.i < Len(OZ_sequence(motors[connector[frame.side]]))
         THEN /\ frame' = [frame EXCEPT !.i = frame.i + 1]
              /\ pc' = "oz_h_write"
         ELSE /\ frame' = NoFrame
              /\ pc' = "ready"
    /\ UNCHANGED <<pkg, speed, call, err>>

\* the assert of set_speed
OZ_SpeedAccepted(speed_value) ==
    speed_value > SpeedMin /\ speed_value < SpeedMax

\* set_speed(speed_value)
OZ_set_speed(speed_value) ==
    /\ pkg = "optical_zoom"
    /\ pc = "ready"
    /\ call' = <<"set_speed", speed_value>>
    /\ ev' = <<>>
    /\ IF OZ_SpeedAccepted(speed_value)
         THEN speed' = speed_value /\ err' = "none"
         ELSE speed' = speed /\ err' = "AssertionError"
    /\ UNCHANGED <<pkg, pc, frame, nwrites, nreads, port>>

InitOZ ==
    /\ pkg = "optical_zoom"
    /\ pc = "new"
    /\ speed = 0
    /\ call = <<>>
    /\ frame = NoFrame
    /\ ev = <<>>
    /\ err = "none"
    /\ nwrites = 0
    /\ nreads = 0
    /\ port = NoWire

NextOZ ==
    \/ \E s \in CtorSpeeds : OZ___init__(s)
    \/ \E r \in Responses : OZ_init_readline(r)
    \/ \E side \in Sides, l \in Levels : OZ_send_zoom_command(side, l)
    \/ \E side \in Sides, z \in OZ_ZoomInputs, f \in OZ_FocusInputs :
          OZ__send_custom_command(side, z, f)
    \/ OZ_write
    \/ \E r \in Responses : OZ_read(r)
    \/ \E side \in Sides : OZ_homing(side)
    \/ OZ_homing_write
    \/ \E r \in Responses : OZ_homing_read(r)
    \/ \E v \in OZ_SpeedInputs : OZ_set_speed(v)

\* the earlier driver alone
SpecOZ == InitOZ /\ [][NextOZ]_vars

\* ------------------------------------------------------- the serial line

\* what the control board answers a line with
Replies == {"ok\r\n"}
\* what a line left in the buffer by an earlier run may read
StaleTexts == {"ok\r\n", "error\r\n"}

\* the control board answers the oldest line it has not answered yet; the
\* answer lands in the input buffer of the port, whenever that is
controller_reply ==
    /\ port.wired
    /\ port.owed # <<>>
    /\ \E t \in Replies :
         port' = [port EXCEPT !.owed = Tail(@),
                              !.rx = Append(@, [text |-> t, to |-> Head(port.owed)])]
    /\ UNCHANGED <<pkg, pc, speed, call, frame, ev, err, nwrites, nreads>>

\* a line received before the port was opened
StaleLine(t) == [text |-> t, to |-> 0]
\* what the input buffer may hold when the constructor is called
StaleBuffers == {<<>>} \cup {<<StaleLine(t)>> : t \in StaleTexts}

\* before the constructor call of either driver, on a port that may hold a
\* line of an earlier run
InitWire ==
    /\ pkg \in {"zoom_kurokesu", "optical_zoom"}
    /\ pc = "new"
    /\ speed = 0
    /\ call = <<>>
    /\ frame = NoFrame
    /\ ev = <<>>
    /\ err = "none"
    /\ nwrites = 0
    /\ nreads = 0
    /\ port \in {[NoWire EXCEPT !.wired = TRUE, !.rx = b] : b \in StaleBuffers}

\* before the constructor call of zoom_kurokesu, on a port with nothing
\* buffered
InitLate ==
    /\ pkg = "zoom_kurokesu"
    /\ pc = "new"
    /\ speed = 0
    /\ call = <<>>
    /\ frame = NoFrame
    /\ ev = <<>>
    /\ err = "none"
    /\ nwrites = 0
    /\ nreads = 0
    /\ port = [NoWire EXCEPT !.wired = TRUE]

NextWire == Next \/ NextOZ \/ controller_reply
NextLate == Next \/ controller_reply

\* either driver and the control board, the port possibly holding a stale line
SpecWire == InitWire /\ [][NextWire]_vars

\* zoom_kurokesu and the control board, replies arriving at any time
SpecLate == InitLate /\ [][NextLate]_vars

\* an instance of either driver
SpecBoth == (Init \/ InitOZ) /\ [][Next \/ NextOZ]_vars

\* ======================================================== claims: vocabulary

IsWrite(e) == e.k = "write"
IsRead(e) == e.k = "read"
IsPortIO(e) == e.k \in {"write", "read"}
IsStep(e) == e.k \in {"write", "sleep"}

\* the write events, the read events, and both, of the call so far
Writes == SelectSeq(ev, IsWrite)
Reads == SelectSeq(ev, IsRead)
PortIO == SelectSeq(ev, IsPortIO)
\* the lines the call has written so far, in order
Lines == [i \in 1..Len(Writes) |-> Writes[i].line]
\* some readline() of the call returned nothing
TimedOut == \E i \in 1..Len(ev) : IsRead(ev[i]) /\ ev[i].resp = ""

CallIs(name) == Len(call) > 0 /\ call[1] = name
\* the call has returned or raised
Returned == pc = "ready"
\* the constructor has returned: an instance exists
Constructed == pc \notin {"new", "init_readline", "oz_init_readline", "failed"}

InZoomRange(v) == 0 <= v /\ v <= 600
InFocusRange(v) == 0 <= v /\ v <= 500
InSpeedRange(v) == 4000 <= v /\ v <= 40000

ZoomLetters == {"X", "Z"}
FocusLetters == {"Y", "A"}
IsMoveLine(line) == line[1] = <<"G", 1>>
\* the words of a line that address a motor
AxisWords(line) ==
    {line[i] : i \in {j \in 1..Len(line) : line[j][1] \in ZoomLetters \cup FocusLetters}}
WordInRange(w) ==
    IF w[1] \in ZoomLetters THEN InZoomRange(w[2]) ELSE InFocusRange(w[2])

\* ================================================================== claims

\* C1 (as claimed): a two-camera raw zoom (resp. focus) call with either value
\* outside 0..600 (resp. 0..500) has failed with a range error and has written
\* nothing to the port.
C1_OutOfRangePairRejected ==
    /\ (CallIs("send_custom_zoom_two_cameras")
          /\ ~(InZoomRange(call[2]) /\ InZoomRange(call[3])))
       => (ev = <<>> /\ (Returned => err = "ValueError"))
    /\ (CallIs("send_custom_focus_two_cameras")
          /\ ~(InFocusRange(call[2]) /\ InFocusRange(call[3])))
       => (ev = <<>> /\ (Returned => err = "ValueError"))

\* C2 (as claimed): once the instance is constructed, whatever speed the
\* constructor was given and whatever was called since, 4000 <= speed <= 40000.
C2_SpeedAlwaysInRange ==
    Constructed => InSpeedRange(speed)

\* C3 (as claimed): a set_speed(v) step stores v and raises nothing when
\* 4000 <= v <= 40000, bounds included, and otherwise raises and leaves the
\* stored speed as it was.
C3_SetSpeedContract ==
    [][ (pc = "ready" /\ pc' = "ready" /\ Len(call') > 0 /\ call'[1] = "set_speed")
        => IF InSpeedRange(call'[2])
             THEN speed' = call'[2] /\ err' = "none"
             ELSE speed' = speed /\ err' # "none" ]_vars

\* C4 (as claimed): every G1 line written carries only coordinates within
\* range (zoom letters 0..600, focus letters 0..500), and a raw move with a
\* value out of range has raised without writing.
C4_MoveLinesValidated ==
    /\ \A i \in 1..Len(Lines) :
          IsMoveLine(Lines[i]) => \A w \in AxisWords(Lines[i]) : WordInRange(w)
    /\ (CallIs("_send_custom_command")
          /\ ~(InZoomRange(call[3]) /\ InFocusRange(call[4])))
       => (ev = <<>> /\ (Returned => err # "none"))

\* C5: the constructor writes the init line once and reads one line.  When
\* that line is 'ok\r\n' the instance is ready and its speed is the requested
\* one; on any other line, or none (timeout), construction has failed and the
\* instance never writes or reads again.  No later call writes the init line.
C5_InitHandshake ==
    /\ pc \in {"init_readline", "oz_init_readline"}
         => (ev = <<WriteEv(init_seq)>> /\ nwrites = 1 /\ nreads = 0)
    /\ (CallIs("__init__") /\ pc \in {"ready", "failed"})
         => /\ Len(ev) = 2 /\ ev[1] = WriteEv(init_seq) /\ IsRead(ev[2])
            /\ nwrites = 1 /\ nreads = 1
            /\ IF ev[2].resp = "ok\r\n"
                 THEN pc = "ready" /\ err = "none" /\ speed = call[2]
                 ELSE pc = "failed" /\ err # "none"
    /\ pc = "failed" => (CallIs("__init__") /\ nwrites = 1 /\ nreads = 1)
    /\ (Constructed /\ ~CallIs("__init__"))
         => \A i \in 1..Len(Lines) : Lines[i] # init_seq

\* C5 witness: the read of the handshake timed out and construction failed.
C5_Witness ==
    /\ pc = "failed"
    /\ Len(ev) = 2
    /\ IsRead(ev[2]) /\ ev[2].resp = ""

\* the reads and writes of the call so far alternate, a write first
Alternates(io) ==
    \A i \in 1..Len(io) : IF i % 2 = 1 THEN IsWrite(io[i]) ELSE IsRead(io[i])

\* C6: every line written is followed by one readline() before the next line is
\* written: writes and reads alternate within a call, the instance is never
\* more than one read behind its writes, and when a call is over (or the
\* constructor has failed) as many lines were read as were written.
C6_RequestAck ==
    /\ Alternates(PortIO)
    /\ nwrites - nreads \in {0, 1}
    /\ nwrites - nreads = Len(Writes) - Len(Reads)
    /\ pc \in {"ready", "failed"} => (nreads = nwrites /\ Len(Reads) = Len(Writes))

\* C6 witness: a homing call that wrote and read its six lines.
C6_Witness ==
    /\ CallIs("homing") /\ Returned /\ err = "none"
    /\ Len(Writes) = 6 /\ Len(Reads) = 6

MoveCalls ==
    {"send_zoom_command", "_send_custom_command", "send_zoom_command_two_cameras",
     "send_custom_zoom_two_cameras", "send_custom_focus_two_cameras"}
IsMoveCall == Len(call) > 0 /\ call[1] \in MoveCalls
\* the lines a move call of zoom_kurokesu writes when it is not refused
MoveLineCount ==
    IF call[1] \in {"send_zoom_command", "_send_custom_command"} THEN 2 ELSE 1

HomingReturned == CallIs("homing") /\ Returned /\ err = "none"
\* what the call did besides reading: its writes and its sleeps, in order
Steps == SelectSeq(ev, IsStep)
\* the two motor letters of a side: <<zoom letter, focus letter>>
LettersOf(side) == IF side = "left" THEN <<"X", "Y">> ELSE <<"Z", "A">>

\* C8 (as claimed): a homing call that returned wrote exactly four lines, a
\* set-zero line first and last.
C8_HomingFourLines ==
    HomingReturned
      => /\ Len(Lines) = 4
         /\ Lines[1][1] = <<"G", 92>>
         /\ Lines[4][1] = <<"G", 92>>

\* C8 (amended): a homing call that returned wrote exactly six lines in a fixed
\* order, whatever was called before and whatever was read.  zoom_kurokesu:
\* set-zero, (0.1 s), zoom to 0, focus to -500, (1 s), zoom to -600, focus to
\* -500, (1 s), set-zero, (0.1 s), the moves at the stored speed.  optical_zoom:
\* G91, F30000, focus to -500, zoom to -1200, G90, set-zero, with no delay.
C8_HomingSixLines ==
    HomingReturned =>
      LET z == LettersOf(call[2])[1]
          f == LettersOf(call[2])[2]
          zero == << <<"G", 92>>, <<z, 0>>, <<f, 0>> >>
      IN  IF pkg = "zoom_kurokesu"
            THEN Steps =
                   << WriteEv(zero),
                      SleepEv(100),
                      WriteEv(<< <<"G", 1>>, <<z, 0>>, <<"F", speed>> >>),
                      WriteEv(<< <<"G", 1>>, <<f, -500>>, <<"F", speed>> >>),
                      SleepEv(1000),
                      WriteEv(<< <<"G", 1>>, <<z, -600>>, <<"F", speed>> >>),
                      WriteEv(<< <<"G", 1>>, <<f, -500>>, <<"F", speed>> >>),
                      SleepEv(1000),
                      WriteEv(zero),
                      SleepEv(100) >>
            ELSE Steps =
                   << WriteEv(<< <<"G", 91>> >>),
                      WriteEv(<< <<"F", 30000>> >>),
                      WriteEv(<< <<"G", 1>>, <<f, -500>> >>),
                      WriteEv(<< <<"G", 1>>, <<z, -1200>> >>),
                      WriteEv(<< <<"G", 90>> >>),
                      WriteEv(zero) >>

\* C8 witness: a homing of the right side returned, after an earlier move and
\* with one of its reads timed out.
C8_Witness ==
    /\ HomingReturned /\ call[2] = "right"
    /\ nwrites > 7
    /\ TimedOut

\* C9: send_zoom_command(s, l), s a side and l a level, writes the zoom line
\* 'G1 <zoom letter of s><zoom of (s, l)> F<speed>', reads, writes the focus
\* line 'G1 <focus letter of s><focus of (s, l)> F<speed>', reads, and returns:
\* two lines written, two reads, nothing raised.  left/in: X457 then Y70.
C9_NamedLevelMove ==
    (CallIs("send_zoom_command")
       /\ call[2] \in {"left", "right"} /\ call[3] \in {"in", "inter", "out"})
    => LET z == LettersOf(call[2])[1]
           f == LettersOf(call[2])[2]
           zv == CASE call[3] = "in" -> 457
                   [] call[3] = "inter" -> 270
                   [] call[3] = "out" -> 0
           fv == CASE call[2] = "left" /\ call[3] = "in" -> 70
                   [] call[2] = "left" /\ call[3] = "inter" -> 331
                   [] call[2] = "left" /\ call[3] = "out" -> 455
                   [] call[2] = "right" /\ call[3] = "in" -> 42
                   [] call[2] = "right" /\ call[3] = "inter" -> 321
                   [] call[2] = "right" /\ call[3] = "out" -> 445
           expected == << << <<"G", 1>>, <<z, zv>>, <<"F", speed>> >>,
                          << <<"G", 1>>, <<f, fv>>, <<"F", speed>> >> >>
       IN  /\ err = "none"
           /\ Alternates(ev)
           /\ Len(Lines) <= 2
           /\ \A i \in 1..Len(Lines) : Lines[i] = expected[i]
           /\ Returned => (Len(Lines) = 2 /\ Len(Reads) = 2)

\* C9 witness: left/in was sent at a speed set after construction.
C9_Witness ==
    /\ call = <<"send_zoom_command", "left", "in">>
    /\ Returned
    /\ speed = 40000
    /\ Lines = << << <<"G", 1>>, <<"X", 457>>, <<"F", 40000>> >>,
                  << <<"G", 1>>, <<"Y", 70>>, <<"F", 40000>> >> >>

\* C10 (as claimed): a raw move of a side with zoom in 0..600 and focus in
\* 0..500, bounds included, raises nothing, and each line it writes is
\* 'G1 <letter><value> F<speed>' for one axis of that side and the value given.
C10_RawMoveInRange ==
    (CallIs("_send_custom_command")
       /\ call[2] \in {"left", "right"}
       /\ InZoomRange(call[3]) /\ InFocusRange(call[4]))
    => /\ err = "none"
       /\ \A i \in 1..Len(Lines) :
             \/ Lines[i] = << <<"G", 1>>, <<LettersOf(call[2])[1], call[3]>>,
                              <<"F", speed>> >>
             \/ Lines[i] = << <<"G", 1>>, <<LettersOf(call[2])[2], call[4]>>,
                              <<"F", speed>> >>
       /\ Returned => Len(Lines) > 0

\* the line ends with the feed word F<v>
CarriesFeed(line, v) == line[Len(line)] = <<"F", v>>
\* the line has no feed word at all
NoFeedWord(line) == \A i \in 1..Len(line) : line[i][1] # "F"

\* C11 (as claimed): every G1 line a call writes carries the stored speed as
\* its feed rate, the stored speed being the value of the last set_speed that
\* succeeded.
C11_EveryMoveLineCarriesSpeed ==
    \A i \in 1..Len(Lines) :
       IsMoveLine(Lines[i]) => CarriesFeed(Lines[i], speed)

\* C11 (amended): the stored speed changes only by a set_speed that succeeds,
\* which stores its argument (a rejected one changes nothing); every G1 line
\* of a named-level, raw or two-camera move, and of zoom_kurokesu's homing,
\* ends with F<stored speed>.  The two G1 lines of optical_zoom's homing carry
\* no feed word: that homing writes 'F30000' as its second line and moves at
\* that rate whatever speed is stored.
C11_FeedRateFollowsSetSpeed ==
    /\ [](\A i \in 1..Len(Lines) :
            IsMoveLine(Lines[i]) =>
              IF pkg = "optical_zoom" /\ CallIs("homing")
                THEN /\ NoFeedWord(Lines[i])
                     /\ i > 2
                     /\ Lines[2] = << <<"F", 30000>> >>
                ELSE CarriesFeed(Lines[i], speed))
    /\ [][ speed' # speed =>
             \/ pc = "new"
             \/ /\ pc = "ready" /\ pc' = "ready"
                /\ call'[1] = "set_speed" /\ err' = "none"
                /\ speed' = call'[2] ]_vars
    /\ [][ (pc = "ready" /\ pc' = "ready" /\ Len(call') > 0
              /\ call'[1] = "set_speed" /\ err' = "none")
           => speed' = call'[2] ]_vars

\* C11 witness: a raw move wrote both its lines at 40000, a speed that only a
\* set_speed can have stored.
C11_Witness ==
    /\ CallIs("_send_custom_command") /\ Returned
    /\ speed = 40000
    /\ Len(Lines) = 2
    /\ CarriesFeed(Lines[1], 40000) /\ CarriesFeed(Lines[2], 40000)

\* the call names a side or a level the tables do not have
UnknownKey(c) ==
    /\ Len(c) > 0
    /\ \/ c[1] = "send_zoom_command"
            /\ (c[2] \notin {"left", "right"} \/ c[3] \notin {"in", "inter", "out"})
       \/ c[1] = "send_zoom_command_two_cameras"
            /\ (c[2] \notin {"in", "inter", "out"} \/ c[3] \notin {"in", "inter", "out"})
       \/ c[1] = "homing" /\ c[2] \notin {"left", "right"}

\* C12: a send_zoom_command, send_zoom_command_two_cameras or homing call that
\* names an unknown side or level raises KeyError at once: nothing is written
\* or read, the stored speed is as before, and the instance is idle again, so
\* that the corrected call can be made.
C12_UnknownKeyRejected ==
    [][ UnknownKey(call')
        => /\ pc' = "ready" /\ err' = "KeyError"
           /\ ev' = <<>>
           /\ nwrites' = nwrites /\ nreads' = nreads
           /\ speed' = speed /\ pkg' = pkg ]_vars

\* C12 witness: homing of an unknown side was refused on an instance whose
\* speed had been set.
C12_Witness ==
    /\ call = <<"homing", "center">>
    /\ Returned /\ err = "KeyError"
    /\ speed = 40000
    /\ ev = <<>>

\* C13: every entry of the position table of either package holds a zoom value
\* within 0..600 and a focus value within 0..500, and so do the values a
\* named-level call has looked up for its lines.
C13_TableInRange ==
    /\ pkg = "zoom_kurokesu" =>
         /\ \A s \in DOMAIN zoom_pos : \A l \in DOMAIN zoom_pos[s] :
               InZoomRange(zoom_pos[s][l].zoom) /\ InFocusRange(zoom_pos[s][l].focus)
         /\ (CallIs("send_zoom_command") /\ pc = "cc_write_zoom")
               => (InZoomRange(frame.zoom) /\ InFocusRange(frame.focus))
         /\ (CallIs("send_zoom_command_two_cameras") /\ pc = "dz_write")
               => (InZoomRange(frame.left) /\ InZoomRange(frame.right))
    /\ pkg = "optical_zoom" =>
         /\ \A l \in DOMAIN OZ_zoom_pos :
               InZoomRange(OZ_zoom_pos[l].zoom) /\ InFocusRange(OZ_zoom_pos[l].focus)
         /\ (CallIs("send_zoom_command") /\ pc = "oz_write")
               => (InZoomRange(frame.zoom) /\ InFocusRange(frame.focus))

\* C13 witness: optical_zoom has looked up level 'out', whose focus value is
\* the upper bound 500.
C13_Witness ==
    /\ pkg = "optical_zoom"
    /\ call = <<"send_zoom_command", "right", "out">>
    /\ pc = "oz_write"
    /\ frame.zoom = 50 /\ frame.focus = 500

\* the set-zero line of a side, as the wire shows it
ZeroLineOf(side) ==
    << <<"G", 92>>, <<LettersOf(side)[1], 0>>, <<LettersOf(side)[2], 0>> >>
IsMoveWrite(e) == IsWrite(e) /\ IsMoveLine(e.line)

\* C15: at every point of a zoom_kurokesu homing(side), the first line written
\* is the set-zero line of that side, every other set-zero line comes
\* directly after a one-second delay that itself comes directly after the
\* acknowledgment read (a line or a timeout) of a move line, and no move line
\* is written after it; a homing that returned has the set-zero line of that
\* side first and last and every move line strictly between the two.
C15_HomingZeroBrackets ==
    (pkg = "zoom_kurokesu" /\ CallIs("homing") /\ err = "none") =>
      LET zero == ZeroLineOf(call[2])
      IN  /\ Len(Lines) > 0 => Lines[1] = zero
          /\ \A j \in 1..Len(ev) :
               (IsWrite(ev[j]) /\ ~IsMoveLine(ev[j].line)) =>
                 /\ ev[j].line = zero
                 /\ \/ j = 1
                    \/ /\ j > 3
                       /\ ev[j - 1] = SleepEv(1000)
                       /\ IsRead(ev[j - 2])
                       /\ IsMoveWrite(ev[j - 3])
                       /\ \A k \in j..Len(ev) : ~IsMoveWrite(ev[k])
          /\ Returned =>
               /\ Len(Lines) > 2
               /\ Lines[Len(Lines)] = zero
               /\ \A i \in 1..Len(Lines) :
                    IsMoveLine(Lines[i]) <=> (1 < i /\ i < Len(Lines))

\* C15 witness: homing('left') returned; its last move line was acknowledged
\* with 'ok', the one-second delay followed, then the final set-zero.
C15_Witness ==
    /\ HomingReturned /\ call[2] = "left"
    /\ Len(ev) = 16
    /\ ev[11] = WriteEv(<< <<"G", 1>>, <<"Y", -500>>, <<"F", speed>> >>)
    /\ ev[12] = ReadEv("ok\r\n")
    /\ ev[13] = SleepEv(1000)
    /\ ev[14] = WriteEv(<< <<"G", 92>>, <<"X", 0>>, <<"Y", 0>> >>)

\* the zoom value the table gives a level name, as the wire shows it
ZoomValueOf(level) ==
    CASE level = "in" -> 457
      [] level = "inter" -> 270
      [] level = "out" -> 0

\* C16: send_zoom_command_two_cameras(left_level, right_level) with two known
\* levels raises nothing, writes the one line
\* 'G1 X<left zoom value> Z<right zoom value> F<speed>' and then reads once;
\* no line it writes names a focus motor.
C16_TwoCamerasOneLine ==
    (CallIs("send_zoom_command_two_cameras")
       /\ call[2] \in {"in", "inter", "out"} /\ call[3] \in {"in", "inter", "out"})
    => LET expected == << <<"G", 1>>, <<"X", ZoomValueOf(call[2])>>,
                          <<"Z", ZoomValueOf(call[3])>>, <<"F", speed>> >>
       IN  /\ err = "none"
           /\ Len(ev) <= 2
           /\ Len(ev) > 0 => ev[1] = WriteEv(expected)
           /\ Len(ev) > 1 => IsRead(ev[2])
           /\ \A i \in 1..Len(Lines) : \A w \in 1..Len(Lines[i]) :
                Lines[i][w][1] \notin FocusLetters
           /\ Returned => (Len(Lines) = 1 /\ Len(Reads) = 1)

\* C16 witness: left 'in', right 'out' was sent as one line and acknowledged.
C16_Witness ==
    /\ call = <<"send_zoom_command_two_cameras", "in", "out">>
    /\ Returned
    /\ Lines = << << <<"G", 1>>, <<"X", 457>>, <<"Z", 0>>, <<"F", speed>> >> >>
    /\ Reads = << ReadEv("ok\r\n") >>

SingleSideCalls == {"send_zoom_command", "_send_custom_command", "homing"}
\* the letters the motor table gives the two axes of a side
TableLetters(side) ==
    {motors[connector[side]].zoom, motors[connector[side]].focus}
\* every letter a line addresses a motor with
AxisLettersOf(line) == {w[1] : w \in AxisWords(line)}

\* C17: the motor table gives left the letters X and Y and right the letters
\* Z and A, four different letters; and at every point of send_zoom_command,
\* _send_custom_command or homing on a side, every line written so far
\* addresses motors of that side only, none of the other side.
C17_OnlyOwnSideLetters ==
    /\ TableLetters("left") = {"X", "Y"}
    /\ TableLetters("right") = {"Z", "A"}
    /\ Cardinality(TableLetters("left") \cup TableLetters("right")) = 4
    /\ (pkg = "zoom_kurokesu" /\ Len(call) > 0 /\ call[1] \in SingleSideCalls
          /\ call[2] \in {"left", "right"})
       => LET own == {LettersOf(call[2])[1], LettersOf(call[2])[2]}
              other == (ZoomLetters \cup FocusLetters) \ own
          IN  \A i \in 1..Len(Lines) :
                 /\ AxisLettersOf(Lines[i]) # {}
                 /\ AxisLettersOf(Lines[i]) \subseteq own
                 /\ \A w \in 1..Len(Lines[i]) : Lines[i][w][1] \notin other

\* C17 witness: homing('right') returned having addressed both Z and A.
C17_Witness ==
    /\ HomingReturned /\ call[2] = "right"
    /\ \E i \in 1..Len(Lines) : AxisLettersOf(Lines[i]) = {"Z", "A"}
    /\ \E i \in 1..Len(Lines) : AxisLettersOf(Lines[i]) = {"Z"}
    /\ \E i \in 1..Len(Lines) : AxisLettersOf(Lines[i]) = {"A"}

\* a line of an earlier run is still in the input buffer
StaleBuffered == \E i \in 1..Len(port.rx) : port.rx[i].to = 0
\* the constructor has returned, its handshake satisfied
HandshakePassed == CallIs("__init__") /\ pc = "ready"

\* C14 (as claimed): once the constructor of either driver has written the
\* init line, no line of an earlier run is left in the input buffer, and the
\* line that satisfied the handshake is the reply to the init line.
C14_StaleNeverHandshake ==
    port.wired =>
      /\ pc \in {"init_readline", "oz_init_readline"} => ~StaleBuffered
      /\ HandshakePassed => port.last = 1

\* the step just taken was a readline that returned a line
JustReadLine == Len(ev) > 0 /\ IsRead(ev[Len(ev)]) /\ port.last # -1
\* replies the driver has not read: buffered, or still to be sent
Unread == Len(port.rx) + Len(port.owed)

\* C18 (as claimed): with one reply per line written, however late, a
\* readline that returns a line returns the reply to the line written last,
\* and the input buffer is empty at the step that completes an operation.
C18_ReadsLatestReply ==
    /\ [](port.wired /\ JustReadLine => port.last = nwrites)
    /\ [][ (port.wired /\ pc # "ready" /\ pc' = "ready") => port'.rx = <<>> ]_vars

\* C18 (amended): a readline that returns a line returns the oldest reply not
\* read yet: the reply to the line written n lines before the last one, n the
\* number of readlines of the instance that have timed out so far; and when
\* the driver is idle exactly n replies are unread.  The replies buffered are
\* always the ones that follow the last one read, in the order of the lines.
C18_ReadsLagByTimeouts ==
    port.wired =>
      /\ JustReadLine => (port.last = nwrites - port.timeouts /\ port.last > 0)
      /\ pc = "ready" => Unread = port.timeouts
      /\ \A i \in 1..Len(port.rx) : port.rx[i].to = nreads - port.timeouts + i

\* C18 witness: the read after the zoom line timed out, the reply came late,
\* and the read after the focus line returned it; one reply stays unread.
C18_Witness ==
    /\ port.wired
    /\ CallIs("_send_custom_command") /\ Returned
    /\ nwrites = 3
    /\ Len(ev) = 4
    /\ ev[2] = ReadEv("") /\ ev[4] = ReadEv("ok\r\n")
    /\ port.timeouts = 1
    /\ port.last = 2
    /\ Unread = 1

====
